---- MODULE Spec2Model ----
(***************************************************************************)
(* A model of debcargo's src/crates.rs: the feature table of a crate       *)
(* (all_dependencies_and_features), the transitive closure of a feature    *)
(* (feature_all_deps), the provides synthesis (calculate_provides with     *)
(* traverse_depth) and the extraction of a .crate archive (filter_path,    *)
(* extract_crate).                                                         *)
(***************************************************************************)
EXTENDS Integers, Sequences, FiniteSets, TLC

VARIABLES pc, pkg, table, before, query, closure, provides,
          archive, policy, idx, staging, writes, last_mtime, source_modified,
          err, reported, actual_toml, dest, outcome

fvars == <<pkg, table, before, query, closure, provides>>
xvars == <<archive, policy, idx, staging, writes, last_mtime, source_modified,
           err, reported, actual_toml, dest, outcome>>
vars == <<pc, fvars, xvars>>

(***************************************************************************)
(* Bounds of the model.                                                    *)
(***************************************************************************)
\* most raw edges of one declared feature
MaxEdges == 2
\* most raw edges of all declared features of one package together
MaxTotalEdges == 2
\* most dependencies of one package
MaxDeps == 2
\* recursion depth at which the thread's stack is exhausted
MaxStackDepth == 8
\* most entries of one archive
MaxEntries == 3

(***************************************************************************)
(* Names.  BTreeMap<&str, _> iterates its keys in byte order; NameOrder is *)
(* that order on the names the model uses.                                 *)
(***************************************************************************)
NameOrder == <<"", "a", "b", "default", "x", "y">>
Names == {NameOrder[i] : i \in 1..Len(NameOrder)}
Rank(n) == CHOOSE i \in 1..Len(NameOrder) : NameOrder[i] = n

\* the keys of a map in iteration order
RECURSIVE KeysFrom(_, _)
KeysFrom(keys, i) ==
    IF i > Len(NameOrder) THEN <<>>
    ELSE (IF NameOrder[i] \in keys THEN <<NameOrder[i]>> ELSE <<>>)
         \o KeysFrom(keys, i + 1)
SortedKeys(keys) == KeysFrom(keys, 1)

\* Vec::sort on a vector of names
RECURSIVE SortFrom(_, _)
SortFrom(s, i) ==
    IF i > Len(NameOrder) THEN <<>>
    ELSE SelectSeq(s, LAMBDA n : n = NameOrder[i]) \o SortFrom(s, i + 1)
SortNames(s) == SortFrom(s, 1)

Range(s) == {s[i] : i \in 1..Len(s)}

(***************************************************************************)
(* cargo's Dependency and FeatureValue, as far as crates.rs reads them.    *)
(***************************************************************************)
Dep(name, optional, kind, target) ==
    [name |-> name, optional |-> optional, kind |-> kind, target |-> target,
     features |-> <<>>, default_features |-> TRUE]

Feature(n) == [kind |-> "Feature", name |-> n, feature |-> ""]
Crate(n) == [kind |-> "Crate", name |-> n, feature |-> ""]
CrateFeature(n, f) == [kind |-> "CrateFeature", name |-> n, feature |-> f]

\* Dependency::set_features followed by Dependency::set_default_features(false)
WithFeature(dep, f) ==
    [dep EXCEPT !.features = <<f>>, !.default_features = FALSE]

(***************************************************************************)
(* all_dependencies_and_features                                           *)
(***************************************************************************)
NonDevelopment(deps) == SelectSeq(deps, LAMBDA d : d.kind # "Development")

\* deps_by_name: the non-development dependencies grouped by package name
DepsByName(deps) ==
    [n \in {d.name : d \in Range(NonDevelopment(deps))} |->
        SelectSeq(NonDevelopment(deps), LAMBDA d : d.name = n)]

\* deps_by_name.values(), flattened: groups in key order
RECURSIVE Flatten(_, _)
Flatten(groups, keys) ==
    IF keys = <<>> THEN <<>>
    ELSE groups[Head(keys)] \o Flatten(groups, Tail(keys))
GroupedDeps(deps) ==
    Flatten(DepsByName(deps), SortedKeys(DOMAIN DepsByName(deps)))

\* the clones of a group, each asking for the one feature f
WithFeatureAll(group, f) == [i \in 1..Len(group) |-> WithFeature(group[i], f)]

\* the loop over one feature's declared values: ok is FALSE when an unwrap of
\* deps_by_name.get(..) meets None
RECURSIVE FeatureEntry(_, _, _)
FeatureEntry(groups, values, acc) ==
    IF values = <<>> \/ ~acc.ok THEN acc
    ELSE LET v == Head(values) IN
         FeatureEntry(groups, Tail(values),
            CASE v.kind = "Feature" ->
                    [acc EXCEPT !.ff = Append(@, v.name)]
              [] v.kind = "Crate" ->
                    IF v.name \in DOMAIN groups
                    THEN [acc EXCEPT !.dd = @ \o groups[v.name]]
                    ELSE [acc EXCEPT !.ok = FALSE]
              [] OTHER ->
                    IF v.name \in DOMAIN groups
                    THEN [acc EXCEPT !.dd =
                              @ \o WithFeatureAll(groups[v.name], v.feature)]
                    ELSE [acc EXCEPT !.ok = FALSE])

DeclaredEntry(groups, values) ==
    FeatureEntry(groups, values, [ok |-> TRUE, ff |-> <<"">>, dd |-> <<>>])

Entry(ff, dd) == [ff |-> ff, dd |-> dd]

\* BTreeMap::insert
Insert(map, k, v) == [n \in DOMAIN map \cup {k} |-> IF n = k THEN v ELSE map[n]]

\* the loop over the optional and the required dependencies
RECURSIVE OptionalDeps(_, _)
OptionalDeps(ordered, acc) ==
    IF ordered = <<>> THEN acc
    ELSE LET dep == Head(ordered) IN
         OptionalDeps(Tail(ordered),
            IF dep.optional
            THEN [acc EXCEPT !.table =
                      Insert(@, dep.name, Entry(<<"">>, <<dep>>))]
            ELSE [acc EXCEPT !.required = Append(@, dep)])

\* a mutant of ImplicitDefault: the edge to the base feature left out
ImplicitDefaultNoBase(t) ==
    IF "default" \in DOMAIN t THEN t
    ELSE Insert(t, "default", Entry(<<>>, <<>>))

ImplicitDefault(t) ==
    IF "default" \in DOMAIN t THEN t
    ELSE Insert(t, "default", Entry(<<"">>, <<>>))

AllDependenciesAndFeatures(deps, features) ==
    LET groups == DepsByName(deps)
        declared == [f \in DOMAIN features |-> DeclaredEntry(groups, features[f])]
    IN  IF \E f \in DOMAIN features : ~declared[f].ok
        THEN [ok |-> FALSE, table |-> << >>]
        ELSE LET t0 == [f \in DOMAIN features |->
                            Entry(declared[f].ff, declared[f].dd)]
                 o == OptionalDeps(GroupedDeps(deps),
                                   [table |-> t0, required |-> <<>>])
             IN  [ok |-> TRUE,
                  table |-> ImplicitDefault(
                                Insert(o.table, "", Entry(<<>>, o.required)))]

(***************************************************************************)
(* feature_all_deps.  The recursion has no visited set; a call at depth    *)
(* MaxStackDepth + 1 exhausts the stack and the process aborts.            *)
(***************************************************************************)
RECURSIVE FeatureAllDepsAt(_, _, _), ClosureLoop(_, _, _, _)
FeatureAllDepsAt(t, feature, depth) ==
    IF depth > MaxStackDepth
    THEN [status |-> "StackOverflow", features |-> <<>>, deps |-> <<>>]
    ELSE IF feature \notin DOMAIN t
    THEN [status |-> "Panic", features |-> <<>>, deps |-> <<>>]
    ELSE ClosureLoop(t, t[feature].ff, depth,
            [status |-> "Ok", features |-> t[feature].ff, deps |-> t[feature].dd])

ClosureLoop(t, ff, depth, acc) ==
    IF ff = <<>> \/ acc.status # "Ok" THEN acc
    ELSE LET r == FeatureAllDepsAt(t, Head(ff), depth + 1) IN
         ClosureLoop(t, Tail(ff), depth,
            IF r.status # "Ok" THEN r
            ELSE [acc EXCEPT !.features = @ \o r.features,
                             !.deps = @ \o r.deps])

FeatureAllDeps(t, feature) == FeatureAllDepsAt(t, feature, 1)

(***************************************************************************)
(* traverse_depth and calculate_provides                                   *)
(***************************************************************************)
RECURSIVE TraverseDepth(_, _), TraverseLoop(_, _)
TraverseDepth(map, key) ==
    IF key \in DOMAIN map
    THEN map[key] \o TraverseLoop(map, map[key])
    ELSE <<>>

TraverseLoop(map, pp) ==
    IF pp = <<>> THEN <<>>
    ELSE TraverseDepth(map, Head(pp)) \o TraverseLoop(map, Tail(pp))

\* a mutant of AliasKey: the first edge is taken whatever the length
AliasKeyFirst(ff) == ff[1]

\* the key a feature is recorded under: ff[0] for one edge, ff[1] for two
AliasKey(ff) == IF Len(ff) = 1 THEN ff[1] ELSE ff[2]

\* mutants of IsAlias: the test of the dependency list left out, and the
\* last "else continue" left out
IsAliasIgnoringDeps(ff, dd) == Len(ff) \in {1, 2}
IsAliasAnyLength(ff, dd) == dd = <<>> /\ Len(ff) >= 1

\* whether the scan records an entry (ff, dd) as provided
IsAlias(ff, dd) == dd = <<>> /\ Len(ff) \in {1, 2}

\* the scan of the table: provides, provided, and whether the assert held
RECURSIVE ProvidesScan(_, _, _)
ProvidesScan(t, keys, acc) ==
    IF keys = <<>> \/ ~acc.ok THEN acc
    ELSE LET f == Head(keys)
             ff == t[f].ff
             dd == t[f].dd
         IN  ProvidesScan(t, Tail(keys),
                IF dd = <<>> /\ ~(ff # <<>> \/ f = "")
                THEN [acc EXCEPT !.ok = FALSE]
                ELSE IF ~IsAlias(ff, dd) THEN acc
                ELSE LET k == AliasKey(ff)
                         p == IF k \in DOMAIN acc.provides
                              THEN acc.provides
                              ELSE Insert(acc.provides, k, <<>>)
                     IN  [acc EXCEPT
                            !.provides = [p EXCEPT ![k] = Append(@, f)],
                            !.provided = Append(@, f)])

\* a mutant of Kept: the edges to removed features are pruned as well
KeptPruned(t, provided) ==
    [f \in DOMAIN t \ Range(provided) |->
        [t[f] EXCEPT !.ff = SelectSeq(@, LAMBDA n : n \notin Range(provided))]]

\* the table after the removal loop
Kept(t, provided) == [f \in DOMAIN t \ Range(provided) |-> t[f]]

CalculateProvides(t) ==
    LET scan == ProvidesScan(t, SortedKeys(DOMAIN t),
                    [ok |-> TRUE, provides |-> << >>, provided |-> <<>>])
        kept == Kept(t, scan.provided)
    IN  IF ~scan.ok
        THEN [status |-> "Panic", table |-> t, provides |-> << >>]
        ELSE [status |-> "Ok",
              table |-> kept,
              provides |-> [k \in DOMAIN kept |->
                               SortNames(TraverseDepth(scan.provides, k))]]

(***************************************************************************)
(* Archive entries, paths and glob patterns.  A path is the sequence of    *)
(* its components.                                                         *)
(***************************************************************************)
\* Path::extension of a path whose last component is name
Extension(name) ==
    CASE name = "Cargo.toml" -> "toml"
      [] name = "lib.rs" -> "rs"
      [] name = "build.rs" -> "rs"
      [] name = "ffi.c" -> "c"
      [] name = "libz.a" -> "a"
      [] OTHER -> ""

FileName(path) == path[Len(path)]

\* a user pattern x is a literal file name or "*.<ext>"
NamePattern(n) == [kind |-> "name", arg |-> n]
ExtPattern(e) == [kind |-> "ext", arg |-> e]

\* Pattern::new("*/" + x).matches_path(path): "*" also matches "/", so the
\* path must hold a separator and end the way x says
MatchesPath(pattern, path) ==
    /\ Len(path) >= 2
    /\ IF pattern.kind = "name"
       THEN FileName(path) = pattern.arg
       ELSE Extension(FileName(path)) = pattern.arg

AnyMatches(patterns, path) ==
    \E i \in 1..Len(patterns) : MatchesPath(patterns[i], path)

Suspicious(path) == Extension(FileName(path)) \in {"c", "a"}

\* a mutant of FilterPath: the whitelist is not consulted
FilterPathNoWhitelist(excludes, includes, path) ==
    IF AnyMatches(excludes, path) THEN [ok |-> TRUE, skip |-> TRUE]
    ELSE IF Suspicious(path) THEN [ok |-> FALSE, skip |-> FALSE]
    ELSE [ok |-> TRUE, skip |-> FALSE]

\* filter_path: Ok(true), Ok(false) or Err(message); the message names path
FilterPath(excludes, includes, path) ==
    IF AnyMatches(excludes, path) THEN [ok |-> TRUE, skip |-> TRUE]
    ELSE IF Suspicious(path)
    THEN IF AnyMatches(includes, path)
         THEN [ok |-> TRUE, skip |-> FALSE]
         ELSE [ok |-> FALSE, skip |-> FALSE]
    ELSE [ok |-> TRUE, skip |-> FALSE]

\* a mutant of HasParentDir: the result of unpack_in is not looked at
HasParentDirIgnored(path) == FALSE

\* tar's Entry::unpack_in returns false, writing nothing, for a path with a
\* parent-directory component
HasParentDir(path) == \E i \in 1..Len(path) : path[i] = ".."

File(text, mtime) == [text |-> text, mtime |-> mtime]

\* the top-level entries of a tree and the ones that are directories
TopLevel(tree) == {p[1] : p \in DOMAIN tree}
\* a mutant of IsDir: the file type of the entry is not looked at
IsDirUnchecked(tree, top) == TRUE

IsDir(tree, top) == \E p \in DOMAIN tree : p[1] = top /\ Len(p) >= 2

\* the tree below the top-level directory top
Below(tree, top) ==
    [q \in {Tail(p) : p \in {r \in DOMAIN tree : r[1] = top /\ Len(r) >= 2}}
        |-> tree[<<top>> \o q]]

WriteFile(tree, path, file) ==
    [p \in DOMAIN tree \cup {path} |-> IF p = path THEN file ELSE tree[p]]

RemoveFile(tree, path) == [p \in DOMAIN tree \ {path} |-> tree[p]]

\* Package::to_registry_toml: the canonical manifest text
RegistryToml == "registry"

TomlPath == <<"Cargo.toml">>
OldTomlPath == <<"Cargo.toml.orig">>

(***************************************************************************)
(* The inputs: the packages and the archives a CrateInfo is built for.     *)
(***************************************************************************)
SeqsUpTo(S, n) == UNION {[1..k -> S] : k \in 0..n}

\* sequences that name no element twice
Distinct(s) == \A i, j \in 1..Len(s) : i # j => s[i] # s[j]

DepPool ==
    {Dep("x", TRUE, "Normal", 0), Dep("x", TRUE, "Normal", 1),
     Dep("y", FALSE, "Build", 0),
     Dep("x", FALSE, "Development", 0), Dep("a", TRUE, "Normal", 0),
     Dep("default", TRUE, "Normal", 0)}

ValuePool == {Feature("a"), Feature("b"), Crate("x"), CrateFeature("x", "s")}

DeclarableFeatures == {"default", "a", "b"}

RECURSIVE SumLen(_, _)
SumLen(f, keys) ==
    IF keys = <<>> THEN 0 ELSE Len(f[Head(keys)]) + SumLen(f, Tail(keys))

\* cargo classifies a value as Feature(n) only when the manifest declares n
FeatureMaps ==
    UNION {{f \in [S -> SeqsUpTo(ValuePool, MaxEdges)] :
              /\ SumLen(f, SortedKeys(S)) <= MaxTotalEdges
              /\ \A n \in S : \A i \in 1..Len(f[n]) :
                    f[n][i].kind = "Feature" => f[n][i].name \in S}
           : S \in SUBSET DeclarableFeatures}

Packages ==
    {[deps |-> d, features |-> f] :
        d \in {s \in SeqsUpTo(DepPool, MaxDeps) : Distinct(s)},
        f \in FeatureMaps}

NoPackage == [deps |-> <<>>, features |-> << >>]

ArchiveEntry(path, mtime, text) == [path |-> path, mtime |-> mtime, text |-> text]

\* an mtime field the header parser rejects
BadMtime == -1

EntryPool ==
    {ArchiveEntry(<<"pkg", "Cargo.toml">>, 1, "registry"),
     ArchiveEntry(<<"pkg", "Cargo.toml">>, 2, "upstream"),
     ArchiveEntry(<<"pkg", "lib.rs">>, 3, "lib"),
     ArchiveEntry(<<"pkg", "build.rs">>, BadMtime, "build"),
     ArchiveEntry(<<"pkg", "ffi.c">>, 4, "ffi"),
     ArchiveEntry(<<"pkg", "libz.a">>, 1, "libz"),
     ArchiveEntry(<<"..", "..", "etc", "passwd">>, 1, "passwd"),
     ArchiveEntry(<<"other", "lib.rs">>, 2, "lib"),
     ArchiveEntry(<<"README">>, 1, "readme")}

Archives == {s \in SeqsUpTo(EntryPool, MaxEntries) : Distinct(s)}

\* the exclude and include lists a caller passes to set_includes_excludes
ExcludeLists ==
    {<<>>, <<NamePattern("lib.rs")>>, <<ExtPattern("c")>>, <<NamePattern("passwd")>>}
IncludeLists == {<<>>, <<ExtPattern("c")>>, <<NamePattern("libz.a")>>}

\* what is at the destination path before extract_crate runs
Absent == [present |-> FALSE, tree |-> << >>]
Occupied == [present |-> TRUE, tree |-> [p \in {<<"old">>} |-> File("old", 0)]]

NoPolicy == [excludes |-> <<>>, includes |-> <<>>]

(***************************************************************************)
(* The state after CrateInfo::new_from_*: a caller either resolves the     *)
(* features of the package or extracts the crate file.                     *)
(***************************************************************************)
Fresh ==
    /\ table = << >>
    /\ before = << >>
    /\ query = ""
    /\ closure = [status |-> "None", features |-> <<>>, deps |-> <<>>]
    /\ provides = << >>
    /\ policy = NoPolicy
    /\ idx = 0
    /\ staging = << >>
    /\ writes = 0
    /\ last_mtime = 0
    /\ source_modified = FALSE
    /\ err = <<>>
    /\ reported = <<>>
    /\ actual_toml = ""
    /\ outcome = "None"

InitResolve ==
    /\ pc = "resolve"
    /\ pkg \in Packages
    /\ archive = <<>>
    /\ dest = Absent
    /\ Fresh

InitExtract ==
    /\ pc = "extract"
    /\ pkg = NoPackage
    /\ archive \in Archives
    /\ dest \in {Absent, Occupied}
    /\ Fresh

Init == InitResolve \/ InitExtract

(***************************************************************************)
(* The feature operations.                                                 *)
(***************************************************************************)
\* the manifests read_manifest finds at the path given to replace_manifest
ReplacementManifests ==
    {p \in Packages :
        /\ Len(p.deps) <= 1
        /\ SumLen(p.features, SortedKeys(DOMAIN p.features)) <= 1}

\* replace_manifest takes the crate mutably, so no table borrowed from it is
\* alive; a real manifest read from the path replaces the crate's, a virtual
\* one or a read error leaves it
ReplaceManifest ==
    /\ pc = "resolve"
    /\ \E read \in {"Real", "Virtual", "Err"} :
        IF read = "Real" THEN pkg' \in ReplacementManifests ELSE pkg' = pkg
    /\ UNCHANGED <<pc, table, before, query, closure, provides, xvars>>

AllDependenciesAndFeaturesCall ==
    /\ pc = "resolve"
    /\ LET r == AllDependenciesAndFeatures(pkg.deps, pkg.features) IN
       /\ table' = r.table
       /\ pc' = IF r.ok THEN "built" ELSE "panicked"
    /\ UNCHANGED <<pkg, before, query, closure, provides, xvars>>

FeatureAllDepsCall ==
    /\ pc = "built"
    /\ \E f \in DOMAIN table :
        /\ query' = f
        /\ closure' = FeatureAllDeps(table, f)
    /\ pc' = "closed"
    /\ UNCHANGED <<pkg, table, before, provides, xvars>>

CalculateProvidesCall ==
    /\ pc \in {"built", "provided"}
    /\ LET r == CalculateProvides(table) IN
       /\ before' = table
       /\ table' = r.table
       /\ provides' = r.provides
       /\ pc' = IF r.status # "Ok" THEN "panicked"
                ELSE IF pc = "built" THEN "provided" ELSE "provided2"
    /\ UNCHANGED <<pkg, query, closure, xvars>>

(***************************************************************************)
(* set_includes_excludes and extract_crate.                                *)
(***************************************************************************)
SetIncludesExcludes ==
    /\ pc = "extract"
    /\ \E ex \in ExcludeLists, inc \in IncludeLists :
        policy' = [excludes |-> ex, includes |-> inc]
    /\ pc' = "configured"
    /\ UNCHANGED <<fvars, archive, idx, staging, writes, last_mtime,
                   source_modified, err, reported, actual_toml, dest, outcome>>

\* the function's entry: the archive is opened, the staging directory made
ExtractCrateCall ==
    /\ pc \in {"extract", "configured"}
    /\ pc' = "unpacking"
    /\ idx' = 1
    /\ staging' = << >>
    /\ source_modified' = FALSE
    /\ last_mtime' = 0
    /\ err' = <<>>
    /\ outcome' = "Running"
    /\ UNCHANGED <<fvars, archive, policy, writes, reported, actual_toml, dest>>

\* a mutant of Max: the newest mtime is the last one read
MaxIsLast(a, b) == b

\* last_mtime after an entry with modification time b
Max(a, b) == IF a > b THEN a ELSE b

\* one pass of the loop over archive.entries()
UnpackEntry ==
    /\ pc = "unpacking"
    /\ idx <= Len(archive)
    /\ LET entry == archive[idx]
           r == FilterPath(policy.excludes, policy.includes, entry.path)
       IN  IF r.ok /\ r.skip
           THEN /\ source_modified' = TRUE
                /\ idx' = idx + 1
                /\ UNCHANGED <<pc, err, staging, writes, last_mtime, outcome>>
           ELSE /\ err' = IF r.ok THEN err ELSE Append(err, entry.path)
                /\ IF HasParentDir(entry.path)
                   THEN /\ outcome' = "PathTraversal"
                        /\ pc' = "returned"
                        /\ staging' = << >>
                        /\ UNCHANGED <<idx, writes, last_mtime, source_modified>>
                   ELSE /\ staging' = WriteFile(staging, entry.path,
                                         File(entry.text, entry.mtime))
                        /\ writes' = writes + 1
                        /\ last_mtime' = IF entry.mtime # BadMtime
                                         THEN Max(last_mtime, entry.mtime)
                                         ELSE last_mtime
                        /\ idx' = idx + 1
                        /\ UNCHANGED <<pc, source_modified, outcome>>
    /\ UNCHANGED <<fvars, archive, policy, reported, actual_toml, dest>>

\* the canonical manifest written over the one that was unpacked
RewriteManifest(tree, mtime) ==
    WriteFile(WriteFile(RemoveFile(tree, TomlPath), OldTomlPath, tree[TomlPath]),
              TomlPath, File(RegistryToml, mtime))

\* everything after the loop
FinishExtract ==
    /\ pc = "unpacking"
    /\ idx > Len(archive)
    /\ pc' = "returned"
    /\ staging' = << >>
    /\ IF err # <<>>
       THEN /\ reported' = err
            /\ outcome' = "SuspiciousContent"
            /\ UNCHANGED <<dest, actual_toml, source_modified>>
       ELSE /\ UNCHANGED reported
            /\ IF Cardinality(TopLevel(staging)) # 1
                  \/ \E top \in TopLevel(staging) : ~IsDir(staging, top)
               THEN /\ outcome' = "MalformedArchiveLayout"
                    /\ UNCHANGED <<dest, actual_toml, source_modified>>
               ELSE IF dest.present
               THEN /\ outcome' = "RenameFailed"
                    /\ UNCHANGED <<dest, actual_toml, source_modified>>
               ELSE LET top == CHOOSE top \in TopLevel(staging) : TRUE
                        moved == Below(staging, top)
                    IN  IF TomlPath \notin DOMAIN moved
                        THEN /\ outcome' = "ManifestIoFailure"
                             /\ dest' = [present |-> TRUE, tree |-> moved]
                             /\ UNCHANGED <<actual_toml, source_modified>>
                        ELSE /\ outcome' = "Ok"
                             /\ actual_toml' = moved[TomlPath].text
                             /\ IF moved[TomlPath].text # RegistryToml
                                THEN /\ dest' = [present |-> TRUE,
                                          tree |-> RewriteManifest(moved, last_mtime)]
                                     /\ source_modified' = TRUE
                                ELSE /\ dest' = [present |-> TRUE, tree |-> moved]
                                     /\ UNCHANGED source_modified
    /\ UNCHANGED <<fvars, archive, policy, idx, writes, last_mtime, err>>

NextResolve ==
    \/ ReplaceManifest
    \/ AllDependenciesAndFeaturesCall
    \/ FeatureAllDepsCall
    \/ CalculateProvidesCall

NextExtract ==
    \/ SetIncludesExcludes
    \/ ExtractCrateCall
    \/ UnpackEntry
    \/ FinishExtract

Next == NextResolve \/ NextExtract

\* a caller resolving the features of a package
SpecResolve == InitResolve /\ [][NextResolve]_vars

\* a caller extracting the crate file
SpecExtract == InitExtract /\ [][NextExtract]_vars

Spec == Init /\ [][Next]_vars

(***************************************************************************)
(* Properties of the feature operations, checked under SpecResolve.        *)
(***************************************************************************)
\* the features one edge away from f
Successors(t, f) == IF f \in DOMAIN t THEN Range(t[f].ff) ELSE {}

\* the features reachable from the set S by zero or more edges
RECURSIVE ReachableFrom(_, _)
ReachableFrom(t, S) ==
    LET n == S \cup UNION {Successors(t, f) : f \in S}
    IN  IF n = S THEN S ELSE ReachableFrom(t, n)

\* some feature reachable from f references itself, directly or indirectly
ReachesCycle(t, f) ==
    \E g \in ReachableFrom(t, {f}) : g \in ReachableFrom(t, Successors(t, g))

\* how often n occurs in the sequence s
Count(s, n) == Cardinality({i \in 1..Len(s) : s[i] = n})

\* the dependencies of the package that are not development-only
PackagedDeps == {d \in Range(pkg.deps) : d.kind # "Development"}

NoFeatures == DOMAIN pkg.features = {}

\* the required dependencies of the package that are not development-only
RequiredDeps ==
    {d \in Range(pkg.deps) : d.kind # "Development" /\ ~d.optional}

\* C1: feature_all_deps on a feature from which a feature that references
\* itself can be reached ends with the error CyclicFeatureGraph.
C1_CycleFailsWithError ==
    (pc = "closed" /\ ReachesCycle(table, query))
        => closure.status = "CyclicFeatureGraph"

\* C2 as stated: after calculate_provides on a built table both the
\* empty-string feature and "default" are still keys of the table.
C2_KeepsBaseAndDefault ==
    pc = "provided" => ("" \in DOMAIN table /\ "default" \in DOMAIN table)

\* C2 as amended: the empty-string feature is never removed, and "default" is
\* removed exactly when it has no direct dependency and one or two edges; it
\* is kept exactly when it has a direct dependency or at least three edges.
C2_KeepsBaseAndRealDefault ==
    pc = "provided" =>
        /\ "" \in DOMAIN table
        /\ "default" \in DOMAIN before
        /\ "default" \in DOMAIN table <=>
              (before["default"].dd # <<>> \/ Len(before["default"].ff) >= 3)

C2_Witness ==
    /\ pc = "provided"
    /\ "default" \in DOMAIN pkg.features
    /\ "default" \in DOMAIN table
    /\ before["default"].dd # <<>>
    /\ \E f \in DOMAIN before : f \notin DOMAIN table

\* C3: after calculate_provides every feature removed from the table is in
\* the provides set of exactly one surviving feature, and there once.
C3_RemovedProvidedOnce ==
    pc = "provided" =>
        \A f \in DOMAIN before \ DOMAIN table :
            /\ Cardinality({k \in DOMAIN provides :
                               f \in Range(provides[k])}) = 1
            /\ \A k \in DOMAIN provides : Count(provides[k], f) <= 1

\* C7 as stated: for a package without features the built table has the key
\* "default" and the closure of "default" has no package dependency.
C7_DefaultClosureEmpty ==
    /\ (pc = "built" /\ NoFeatures) => "default" \in DOMAIN table
    /\ (pc = "closed" /\ NoFeatures /\ query = "default")
          => (closure.status = "Ok" /\ closure.deps = <<>>)

\* the optional non-development dependencies that have the name "default"
OptionalDefaults ==
    {d \in PackagedDeps : d.optional /\ d.name = "default"}

\* C7 as amended: for a package without features the built table has the key
\* "default" with the single edge to the empty-string feature; its direct
\* dependencies are none, or, when the package has an optional
\* non-development dependency named "default", one such dependency alone.
\* The closure of "default" holds exactly these direct dependencies and the
\* dependencies of the empty-string feature, which are the required
\* non-development dependencies, each once.
C7_DefaultClosureIsBase ==
    /\ (pc = "built" /\ NoFeatures)
          => /\ "default" \in DOMAIN table
             /\ IF OptionalDefaults = {}
                THEN table["default"] = Entry(<<"">>, <<>>)
                ELSE \E d \in OptionalDefaults :
                        table["default"] = Entry(<<"">>, <<d>>)
             /\ Range(table[""].dd) = RequiredDeps
    /\ (pc = "closed" /\ NoFeatures /\ query = "default")
          => /\ closure.status = "Ok"
             /\ Range(closure.deps)
                   = Range(table["default"].dd) \cup RequiredDeps
             /\ Len(closure.deps)
                   = Len(table["default"].dd) + Cardinality(RequiredDeps)
             /\ OptionalDefaults = {} => closure.deps = table[""].dd

C7_Witness ==
    /\ pc = "closed"
    /\ NoFeatures
    /\ query = "default"
    /\ closure.status = "Ok"
    /\ OptionalDefaults # {}
    /\ RequiredDeps # {}
    /\ Len(closure.deps) = 2

\* C8: a second calculate_provides on the table the first one left removes
\* nothing: the table is the same before and after the second call.
C8_SecondRunRemovesNothing ==
    pc = "provided2" => (table = before /\ DOMAIN provides = DOMAIN table)

C8_Witness ==
    /\ pc = "provided2"
    /\ \E f \in DOMAIN pkg.features : f \notin DOMAIN table
    /\ \E f \in DOMAIN table : f # "" /\ Len(table[f].ff) >= 3

\* C10: calculate_provides leaves every entry that has a direct dependency,
\* no edge or at least three edges in the table with the same edges and
\* dependencies, and lists it in no provides set.
C10_NonCandidatesUntouched ==
    pc \in {"provided", "provided2"} =>
        \A f \in DOMAIN before :
            (before[f].dd # <<>> \/ Len(before[f].ff) = 0
                \/ Len(before[f].ff) >= 3)
            => /\ f \in DOMAIN table
               /\ table[f] = before[f]
               /\ \A k \in DOMAIN provides : f \notin Range(provides[k])

C10_Witness ==
    /\ pc = "provided"
    /\ \E f \in DOMAIN table :
          f # "" /\ table[f].dd = <<>> /\ Len(table[f].ff) >= 3
    /\ \E f \in DOMAIN table : f # "" /\ table[f].dd # <<>>
    /\ \E f \in DOMAIN before : f \notin DOMAIN table

(***************************************************************************)
(* Properties of extract_crate, checked under SpecExtract.                 *)
(***************************************************************************)
\* the path leaves the directory it is resolved in
Escapes(path) == ".." \in Range(path)

Excluded(entry) == AnyMatches(policy.excludes, entry.path)

\* the entries that are not skipped, in archive order
KeptEntries == SelectSeq(archive, LAMBDA e : ~Excluded(e))

\* the positions of the entries that are not skipped and hold a ".."
Traversals ==
    {i \in 1..Len(archive) :
        ~Excluded(archive[i]) /\ Escapes(archive[i].path)}

\* the paths with a suspicious extension that no include pattern matches
Offending ==
    SelectSeq([i \in 1..Len(archive) |-> archive[i].path],
              LAMBDA p : Extension(FileName(p)) \in {"c", "a"}
                         /\ ~AnyMatches(policy.includes, p))

\* the staging area after every kept entry is unpacked holds one top-level
\* entry, a directory
SingleTopDir ==
    /\ Cardinality({e.path[1] : e \in Range(KeptEntries)}) = 1
    /\ \A e \in Range(KeptEntries) : Len(e.path) >= 2

\* nothing was created at the destination path
DestUntouched == dest \in {Absent, Occupied}

RECURSIVE MaxMtime(_)
MaxMtime(entries) ==
    IF entries = <<>> THEN 0
    ELSE LET m == MaxMtime(Tail(entries))
             h == Head(entries).mtime
         IN  IF h # BadMtime /\ h > m THEN h ELSE m

\* the text of the last manifest among the entries, "" without one
RECURSIVE LastManifest(_)
LastManifest(entries) ==
    IF entries = <<>> THEN ""
    ELSE LET e == entries[Len(entries)] IN
         IF Len(e.path) = 2 /\ e.path[2] = "Cargo.toml" THEN e.text
         ELSE LastManifest(SubSeq(entries, 1, Len(entries) - 1))

Rewritten ==
    pc = "returned" /\ outcome = "Ok" /\ actual_toml # RegistryToml

\* C4 as stated: an archive with an entry that holds a parent-directory
\* segment makes extract_crate fail with PathTraversal before any write.
C4_TraversalFailsBeforeAnyWrite ==
    (pc = "returned" /\ \E i \in 1..Len(archive) : Escapes(archive[i].path))
        => (outcome = "PathTraversal" /\ writes = 0)

\* C4 as amended: an entry with a parent-directory segment that no exclude
\* pattern matches makes extract_crate fail with PathTraversal at the first
\* such entry; that entry and the ones after it are never written and nothing
\* is created at the destination, while the kept entries before it were
\* written to the staging directory, which is discarded.
C4_TraversalFailsAtEntry ==
    /\ \A p \in DOMAIN staging : ~Escapes(p)
    /\ (pc = "returned" /\ Traversals # {}) =>
          LET first == CHOOSE i \in Traversals : \A j \in Traversals : i <= j
          IN  /\ outcome = "PathTraversal"
              /\ idx = first
              /\ writes = Len(SelectSeq(SubSeq(archive, 1, first - 1),
                                        LAMBDA e : ~Excluded(e)))
              /\ staging = << >>
              /\ DestUntouched

C4_Witness ==
    /\ pc = "returned"
    /\ outcome = "PathTraversal"
    /\ writes >= 1
    /\ idx < Len(archive)

\* C5 as stated: when the unpacked manifest differs from the canonical text,
\* the manifest holds the canonical text, the backup holds the original text,
\* the manifest's mtime is the greatest mtime of the archive's entries, and
\* the result is true.
C5_RewriteUsesArchiveMaxMtime ==
    Rewritten =>
        /\ dest.tree[TomlPath].text = RegistryToml
        /\ OldTomlPath \in DOMAIN dest.tree
        /\ dest.tree[OldTomlPath].text = actual_toml
        /\ dest.tree[TomlPath].mtime = MaxMtime(archive)
        /\ source_modified

\* C5 as amended: the same, with the manifest's mtime the greatest readable
\* mtime of the entries that were unpacked; entries that an exclude pattern
\* skips do not count.
C5_RewriteUsesUnpackedMaxMtime ==
    Rewritten =>
        /\ dest.tree[TomlPath].text = RegistryToml
        /\ OldTomlPath \in DOMAIN dest.tree
        /\ dest.tree[OldTomlPath].text = actual_toml
        /\ actual_toml = LastManifest(KeptEntries)
        /\ dest.tree[TomlPath].mtime = MaxMtime(KeptEntries)
        /\ source_modified

C5_Witness ==
    /\ Rewritten
    /\ \E e \in Range(archive) : Excluded(e) /\ e.mtime > last_mtime
    /\ \E i, j \in 1..Len(KeptEntries) :
          i < j /\ KeptEntries[i].mtime > KeptEntries[j].mtime

\* C6: without a path-traversal entry and without an excluded entry,
\* extract_crate fails with SuspiciousContent exactly when some entry has a
\* suspicious extension and matches no include pattern; it does so after the
\* last entry, reports every such path, and creates nothing at the
\* destination.
C6_SuspiciousAfterFullScan ==
    (/\ pc = "returned"
     /\ \A i \in 1..Len(archive) :
           ~Escapes(archive[i].path) /\ ~Excluded(archive[i]))
    => /\ outcome = "SuspiciousContent" <=> Offending # <<>>
       /\ outcome = "SuspiciousContent" =>
             /\ idx = Len(archive) + 1
             /\ writes = Len(archive)
             /\ reported = Offending
             /\ DestUntouched

C6_Witness ==
    /\ pc = "returned"
    /\ outcome = "SuspiciousContent"
    /\ Len(reported) >= 2
    /\ Len(archive) > Len(reported)
    /\ \A i \in 1..Len(archive) :
          ~Escapes(archive[i].path) /\ ~Excluded(archive[i])

\* C9: when every entry is unpacked without an error and the staging area
\* does not hold exactly one top-level entry that is a directory,
\* extract_crate fails with MalformedArchiveLayout and renames nothing into
\* the destination.
C9_MalformedLayout ==
    (/\ pc = "returned"
     /\ outcome \notin {"PathTraversal", "SuspiciousContent"}
     /\ ~SingleTopDir)
    => (outcome = "MalformedArchiveLayout" /\ DestUntouched)

C9_Witness ==
    /\ pc = "returned"
    /\ outcome = "MalformedArchiveLayout"
    /\ {"pkg", "other"} \subseteq {e.path[1] : e \in Range(KeptEntries)}
    /\ ~dest.present


(***************************************************************************)
(* Further properties of the feature operations, checked under             *)
(* SpecResolve.                                                            *)
(***************************************************************************)
\* the entry a declared feature n gets from its own declaration: the edge to
\* the base feature, then its feature references in order
DeclaredEdges(n) ==
    <<"">> \o [i \in 1..Len(SelectSeq(pkg.features[n],
                                     LAMBDA v : v.kind = "Feature")) |->
                 SelectSeq(pkg.features[n], LAMBDA v : v.kind = "Feature")[i].name]

\* an optional dependency that has the name of a declared feature
Clashes == {d \in PackagedDeps : d.optional /\ d.name \in DOMAIN pkg.features}

\* a package or qualified reference names no non-development dependency
Unresolved ==
    \E n \in DOMAIN pkg.features : \E i \in 1..Len(pkg.features[n]) :
        /\ pkg.features[n][i].kind \in {"Crate", "CrateFeature"}
        /\ pkg.features[n][i].name \notin {d.name : d \in PackagedDeps}

\* C11: when an optional dependency has the name of a declared feature, the
\* declared entry stays under that name and the dependency is added to the
\* dependencies of the empty-string feature, not inserted as a singleton.
C11_ClashKeepsDeclaredFeature ==
    pc = "built" =>
        \A d \in Clashes :
            /\ table[d.name].ff = DeclaredEdges(d.name)
            /\ table[d.name] # Entry(<<"">>, <<d>>)
            /\ d \in Range(table[""].dd)

\* C12: a package or qualified reference to a name that is no
\* non-development dependency makes the build return the error
\* UnresolvedFeatureDependency, an error value and not a crash, with no table.
C12_UnresolvedIsAnError ==
    (pc # "resolve" /\ Unresolved)
        => (pc = "UnresolvedFeatureDependency" /\ table = << >>)

\* C13: after the build every non-development dependency is in the
\* dependency list of a feature: a required one under the empty-string
\* feature, an optional one under the feature that has its name.
C13_NoDependencyDropped ==
    pc = "built" =>
        \A d \in PackagedDeps :
            /\ \E f \in DOMAIN table : d \in Range(table[f].dd)
            /\ IF d.optional
               THEN d.name \in DOMAIN table /\ d \in Range(table[d.name].dd)
               ELSE d \in Range(table[""].dd)

\* C14: on an acyclic built table, a feature f that calculate_provides
\* removes and lists in the provides set of a surviving feature k has the
\* same transitive package dependencies as k, as sets, both computed by
\* feature_all_deps on the table before the removal.
C14_AliasHasSameClosure ==
    (pc = "provided" /\ \A g \in DOMAIN before : ~ReachesCycle(before, g)) =>
        \A k \in DOMAIN provides : \A f \in Range(provides[k]) :
            /\ f \notin DOMAIN table
            /\ FeatureAllDeps(before, f).status = "Ok"
            /\ FeatureAllDeps(before, k).status = "Ok"
            /\ Range(FeatureAllDeps(before, f).deps)
                  = Range(FeatureAllDeps(before, k).deps)

C14_Witness ==
    /\ pc = "provided"
    /\ \A g \in DOMAIN before : ~ReachesCycle(before, g)
    /\ \E k \in DOMAIN provides :
          /\ k # ""
          /\ provides[k] # <<>>
          /\ before[k].dd # <<>>
          /\ \E d \in Range(FeatureAllDeps(before, k).deps) : ~d.optional
    /\ provides[""] # <<>>

====
